---- MODULE Spec2Model ----
(***************************************************************************)
(* Model of app1.py: the CSV -> formatted workbook transforms              *)
(* (process_and_format, process_combined_files) and the two request        *)
(* handlers (process_single, process_combined) with their temp files.      *)
(*                                                                         *)
(* Text is a tuple of one-character strings, so that parsing, ordering     *)
(* and len(str(..)) are computed and not assumed.  Column names are TLA+   *)
(* strings (they are only compared and measured).                          *)
(***************************************************************************)
EXTENDS Integers, Sequences, FiniteSets, TLC

VARIABLES
    upload_a,        \* content of the uploaded file (file / file_a)
    upload_b,        \* content of the second uploaded file (file_b)
    op,              \* the transform applied in the transform specifications
    status,          \* its outcome: None | "ok" | the exception raised
    df_yes,          \* process_and_format's local df_yes (rows carry the index)
    df_no,           \* process_and_format's local df_no
    book,            \* the workbook in memory (wb / wb_combined), a sequence of sheets
    pc,              \* position of the request handler
    route,           \* "single" | "combined": the handler that runs
    disk,            \* temp path -> file content
    handles,         \* resources currently open (temp handles, writer, workbook)
    temp_input_path, \* process_single's local
    temp_output_path,\* process_single's local
    temp_files,      \* process_combined's local list
    loop_i,          \* position of a cleanup loop in temp_files
    callee,          \* the running transform call: its arguments and position
    exc,             \* the exception the handler's try block raised, if any
    file_data,       \* process_single's local: the bytes read back
    archive,         \* process_combined's zip_buffer: the entries written
    unlink_failed,   \* the paths whose os.unlink raised
    response         \* what the handler returned

vars == <<upload_a, upload_b, op, status, df_yes, df_no, book, pc, route, disk,
          handles, temp_input_path, temp_output_path, temp_files, loop_i, callee,
          exc, file_data, archive, unlink_failed, response>>

hvars == <<pc, route, disk, handles, temp_input_path, temp_output_path,
           temp_files, loop_i, callee, exc, file_data, archive, unlink_failed,
           response>>

(***************************************************************************)
(* Bounds of the model.                                                    *)
(***************************************************************************)
MaxRows == 3        \* rows of an input table in the split specification
MaxExtra == 14      \* extra columns after the three required ones
MaxWideRows == 2    \* rows of an input table in the sheet specification

None == "None"

Range(s) == {s[i] : i \in 1..Len(s)}

(***************************************************************************)
(* Characters and text.                                                    *)
(***************************************************************************)
Digits == <<"0", "1", "2", "3", "4", "5", "6", "7", "8", "9">>
Upper == <<"A", "B", "C", "D", "E", "F", "G", "H", "I", "J", "K", "L", "M",
           "N", "O", "P", "Q", "R", "S", "T", "U", "V", "W", "X", "Y", "Z">>
Lower == <<"a", "b", "c", "d", "e", "f", "g", "h", "i", "j", "k", "l", "m",
           "n", "o", "p", "q", "r", "s", "t", "u", "v", "w", "x", "y", "z">>

IndexIn(seq, c) == CHOOSE i \in 1..Len(seq) : seq[i] = c

\* Python's ord() on the characters the model uses
Ord(c) ==
    IF c \in Range(Digits) THEN 47 + IndexIn(Digits, c)
    ELSE IF c \in Range(Upper) THEN 64 + IndexIn(Upper, c)
    ELSE 96 + IndexIn(Lower, c)

\* Python's str < str: by code point, a proper prefix is smaller
RECURSIVE StrLess(_, _)
StrLess(s, t) ==
    IF t = <<>> THEN FALSE
    ELSE IF s = <<>> THEN TRUE
    ELSE IF Ord(Head(s)) # Ord(Head(t)) THEN Ord(Head(s)) < Ord(Head(t))
    ELSE StrLess(Tail(s), Tail(t))

IsIntLiteral(tok) == tok # <<>> /\ \A i \in 1..Len(tok) : tok[i] \in Range(Digits)

RECURSIVE IntValue(_)
IntValue(tok) ==
    IF tok = <<>> THEN 0
    ELSE 10 * IntValue(SubSeq(tok, 1, Len(tok) - 1))
         + (IndexIn(Digits, tok[Len(tok)]) - 1)

RECURSIVE NumDigits(_)
NumDigits(n) == IF n < 10 THEN 1 ELSE 1 + NumDigits(n \div 10)

TrueText == <<"T", "r", "u", "e">>
FalseText == <<"F", "a", "l", "s", "e">>
IsBoolLiteral(tok) == tok \in {TrueText, FalseText}

(***************************************************************************)
(* Cell values of a DataFrame / worksheet.                                 *)
(***************************************************************************)
NaN == [t |-> "nan"]
Num(n) == [t |-> "num", n |-> n]
Str(s) == [t |-> "str", s |-> s]
Bool(b) == [t |-> "bool", b |-> b]
Empty == [t |-> "none"]      \* an empty worksheet cell (value None)

(***************************************************************************)
(* pd.read_csv: the header row names the columns; each column's type is    *)
(* inferred from all of its cells; an empty field is NaN.                  *)
(***************************************************************************)
ColumnTokens(file, c) == {file.rows[i][c] : i \in 1..Len(file.rows)} \ {<<>>}

ParseCell(file, c, tok) ==
    IF tok = <<>> THEN NaN
    ELSE IF \A u \in ColumnTokens(file, c) : IsIntLiteral(u) THEN Num(IntValue(tok))
    ELSE IF \A u \in ColumnTokens(file, c) : IsBoolLiteral(u) THEN Bool(tok = TrueText)
    ELSE Str(tok)

read_csv(file) ==
    [columns |-> file.header,
     rows |-> [i \in 1..Len(file.rows) |->
                 [index |-> i - 1,
                  cells |-> [c \in 1..Len(file.header) |->
                               ParseCell(file, c, file.rows[i][c])]]]]

ColumnOf(df, name) == CHOOSE c \in 1..Len(df.columns) : df.columns[c] = name

(***************************************************************************)
(* process_and_format, lines 31-38: the column check, the two filters and  *)
(* the two sorts.                                                          *)
(***************************************************************************)
required_cols == <<"ISGOVTCAN", "DIVNCODE", "LASTDEMAND">>

\* mutant of has_required_cols: any() where the code has all()
has_any_required_col(df) ==
    \E i \in 1..Len(required_cols) : required_cols[i] \in Range(df.columns)

\* all(col in df.columns for col in required_cols)
has_required_cols(df) ==
    \A i \in 1..Len(required_cols) : required_cols[i] \in Range(df.columns)

\* df['ISGOVTCAN'] and sort_values(by='LASTDEMAND') raise KeyError on a frame
\* without the column
can_split(df) == {"ISGOVTCAN", "LASTDEMAND"} \subseteq Range(df.columns)

\* mutant of select_flag: everything that is not the other flag
select_not_other(df, value) ==
    SelectSeq(df.rows,
              LAMBDA r : r.cells[ColumnOf(df, "ISGOVTCAN")]
                           # Str(IF value = <<"Y", "e", "s">>
                                 THEN <<"N", "o">> ELSE <<"Y", "e", "s">>))

\* df[df['ISGOVTCAN'] == value]: a NaN or a non-string cell equals no string
select_flag(df, value) ==
    SelectSeq(df.rows, LAMBDA r : r.cells[ColumnOf(df, "ISGOVTCAN")] = Str(value))

\* the order of two non-NaN cells of one column, as the column's dtype compares
KeyLess(a, b) ==
    IF a.t = "num" /\ b.t = "num" THEN a.n < b.n
    ELSE IF a.t = "str" /\ b.t = "str" THEN StrLess(a.s, b.s)
    ELSE IF a.t = "bool" /\ b.t = "bool" THEN ~a.b /\ b.b
    ELSE FALSE

\* the orderings of n rows
Orderings(n) == {f \in [1..n -> 1..n] : \A i, j \in 1..n : f[i] = f[j] => i = j}

\* sort_values(by=col, ascending=False): the non-NaN rows in non-increasing
\* key order, then the NaN rows in their input order (na_position='last').
\* The default kind is 'quicksort', which is not a stable sort: rows with
\* equal keys may come out in any order.
sort_values(rows, c) ==
    LET keyed == SelectSeq(rows, LAMBDA r : r.cells[c] # NaN)
        nans == SelectSeq(rows, LAMBDA r : r.cells[c] = NaN)
        n == Len(keyed)
    IN  {[i \in 1..n |-> keyed[f[i]]] \o nans :
            f \in {g \in Orderings(n) :
                     \A i, j \in 1..n :
                        i < j => ~KeyLess(keyed[g[i]].cells[c], keyed[g[j]].cells[c])}}

(***************************************************************************)
(* Worksheets: to_excel (lines 41-43, 89-90) and the header styling and    *)
(* column widths (lines 54-68, 102-113).                                   *)
(***************************************************************************)
NoStyle == [bold |-> FALSE, horizontal |-> None, vertical |-> None, fill |-> None]

\* what load_workbook reads back for a cell that to_excel wrote
ExcelCell(v) == IF v = NaN THEN Empty ELSE v

\* df.to_excel(writer, sheet_name=name, index=False), read back by load_workbook.
\* The format to_excel itself gives the header row is not tracked: lines 59-60
\* replace the font and the alignment of every header cell.
to_excel(columns, rows, name) ==
    [name |-> name,
     header |-> columns,
     rows |-> [i \in 1..Len(rows) |->
                 [c \in 1..Len(columns) |-> ExcelCell(rows[i].cells[c])]],
     style |-> [r \in 1..(Len(rows) + 1) |-> [c \in 1..Len(columns) |-> NoStyle]],
     width |-> [c \in 1..Len(columns) |-> None]]

\* openpyxl.utils.get_column_letter: bijective base 26
RECURSIVE get_column_letter(_)
get_column_letter(col_idx) ==
    IF col_idx = 0 THEN <<>>
    ELSE LET remainder == IF col_idx % 26 = 0 THEN 26 ELSE col_idx % 26
         IN  get_column_letter((col_idx - remainder) \div 26) \o <<Upper[remainder]>>

\* mutant of header_style: the fill tested on a 0-based column position
header_style_from_zero(col_idx) ==
    [bold |-> TRUE, horizontal |-> "center", vertical |-> "center",
     fill |-> IF col_idx - 1 = 0 \/ get_column_letter(col_idx - 1) \in {<<"A">>, <<"P">>}
              THEN "FFC000" ELSE None]

\* lines 58-64: the font, the alignment and the fill of one header cell
header_style(col_idx) ==
    [bold |-> TRUE, horizontal |-> "center", vertical |-> "center",
     fill |-> IF get_column_letter(col_idx) \in {<<"A">>, <<"P">>}
              THEN "FFC000" ELSE None]

\* Python truthiness of a cell value
Falsy(v) == v = Empty \/ v = Num(0) \/ v = Bool(FALSE) \/ v = Str(<<>>)

\* len(str(v)) of a cell value
StrLen(v) ==
    IF v.t = "num" THEN NumDigits(v.n)
    ELSE IF v.t = "bool" THEN (IF v.b THEN Len(TrueText) ELSE Len(FalseText))
    ELSE IF v.t = "str" THEN Len(v.s)
    ELSE Len("None")

\* len(str(ws.cell(row, column).value or "")): row 1 is the header
cell_length(ws, row, c) ==
    IF row = 1 THEN Len(ws.header[c])
    ELSE IF Falsy(ws.rows[row - 1][c]) THEN 0
    ELSE StrLen(ws.rows[row - 1][c])

SetMax(S) == CHOOSE m \in S : \A x \in S : x <= m

\* line 67: max(... for row in range(1, ws.max_row + 1))
max_length(ws, c) == SetMax({cell_length(ws, row, c) : row \in 1..(Len(ws.rows) + 1)})

\* the loop over enumerate(ws[1], start=1)
style_sheet(ws) ==
    [ws EXCEPT
       !.style = [r \in DOMAIN ws.style |->
                    IF r = 1 THEN [c \in 1..Len(ws.header) |-> header_style(c)]
                    ELSE ws.style[r]],
       !.width = [c \in 1..Len(ws.header) |-> max_length(ws, c) + 2]]

(***************************************************************************)
(* process_combined_files, lines 78-86.                                    *)
(***************************************************************************)
\* mutant of assign_column: an existing column is left as it is
assign_new_column_only(df, name, label) ==
    IF name \in Range(df.columns) THEN df
    ELSE [columns |-> Append(df.columns, name),
          rows |-> [i \in 1..Len(df.rows) |->
                      [df.rows[i] EXCEPT !.cells = Append(@, Str(label))]]]

\* df[name] = label: overwrites the column in place when it exists, appends
\* it otherwise
assign_column(df, name, label) ==
    IF name \in Range(df.columns)
    THEN [df EXCEPT !.rows =
            [i \in 1..Len(df.rows) |->
               [df.rows[i] EXCEPT !.cells[ColumnOf(df, name)] = Str(label)]]]
    ELSE [columns |-> Append(df.columns, name),
          rows |-> [i \in 1..Len(df.rows) |->
                      [df.rows[i] EXCEPT !.cells = Append(@, Str(label))]]]

\* the columns of pd.concat([a, b]): a's, then those only b has, in b's order
union_columns(a, b) ==
    a.columns \o SelectSeq(b.columns, LAMBDA n : n \notin Range(a.columns))

\* a row of df laid out on the given columns; a column df lacks is NaN
reindex_row(df, row, columns) ==
    [c \in 1..Len(columns) |->
       IF columns[c] \in Range(df.columns)
       THEN row.cells[ColumnOf(df, columns[c])] ELSE NaN]

\* mutant of concat: the second frame first
concat_reversed(a, b) ==
    LET columns == union_columns(a, b)
    IN  [columns |-> columns,
         rows |-> [i \in 1..(Len(a.rows) + Len(b.rows)) |->
                     [index |-> i - 1,
                      cells |-> IF i <= Len(b.rows)
                                THEN reindex_row(b, b.rows[i], columns)
                                ELSE reindex_row(a, a.rows[i - Len(b.rows)], columns)]]]

\* pd.concat([a, b], ignore_index=True)
concat(a, b) ==
    LET columns == union_columns(a, b)
    IN  [columns |-> columns,
         rows |-> [i \in 1..(Len(a.rows) + Len(b.rows)) |->
                     [index |-> i - 1,
                      cells |-> IF i <= Len(a.rows)
                                THEN reindex_row(a, a.rows[i], columns)
                                ELSE reindex_row(b, b.rows[i - Len(a.rows)], columns)]]]

combined_df(file_a, file_b) ==
    concat(assign_column(read_csv(file_a), "HCC Type", <<"A">>),
           assign_column(read_csv(file_b), "HCC Type", <<"B">>))

\* the workbook process_combined_files saves
combined_book(file_a, file_b) ==
    LET df == combined_df(file_a, file_b)
    IN  <<style_sheet(to_excel(df.columns, df.rows, "Combined"))>>

\* the workbook process_and_format saves for one outcome of the two sorts
split_book(df, yes, no) ==
    <<style_sheet(to_excel(df.columns, yes, "GovtCAN_Yes")),
      style_sheet(to_excel(df.columns, no, "GovtCAN_No"))>>

(***************************************************************************)
(* Temp files, calls and responses of the request handlers.                *)
(***************************************************************************)
\* the names tempfile.NamedTemporaryFile hands out during one request
Paths == {"input", "output", "a", "b", "out_a", "out_b", "combined"}

Absent == [kind |-> "absent"]                   \* no such file
EmptyFile == [kind |-> "empty"]                 \* a file just created
CsvFile(t) == [kind |-> "csv", table |-> t]
XlsxFile(b) == [kind |-> "xlsx", book |-> b]

NoCall == [fn |-> None, at |-> None, in1 |-> None, in2 |-> None, out |-> None,
           ret |-> None]
NoResponse == [kind |-> None, flash |-> None, name |-> None, data |-> Absent]

(***************************************************************************)
(* Input tables.                                                           *)
(***************************************************************************)
Yes == <<"Y", "e", "s">>
No == <<"N", "o">>

\* the cells a column of an uploaded file may hold
Tokens(name) ==
    IF name = "ISGOVTCAN" THEN {Yes, No, <<"y", "e", "s">>}
    ELSE IF name = "LASTDEMAND" THEN {<<"5">>, <<"1", "0">>, <<"x">>, <<>>}
    ELSE IF name = "DIVNCODE" THEN {<<"7">>}
    ELSE IF name = "F" THEN {FalseText, <<>>}
    ELSE IF name = "HCC Type" THEN {<<"Z">>}
    ELSE {<<"0">>}

WideTokens(name) ==
    IF name = "ISGOVTCAN" THEN {Yes, No}
    ELSE IF name = "LASTDEMAND" THEN {<<>>}
    ELSE Tokens(name)

ExtraNames == <<"F", "HCC Type", "E3", "E4", "E5", "E6", "E7", "E8", "E9", "E10",
                "E11", "E12", "E13", "E14", "E15", "E16", "E17", "E18">>

\* the rows a table with the given header may have: one token per column
RECURSIVE RowChoices(_, _)
RowChoices(header, wide) ==
    IF header = <<>> THEN {<<>>}
    ELSE {<<t>> \o r : t \in (IF wide THEN WideTokens(Head(header)) ELSE Tokens(Head(header))),
                       r \in RowChoices(Tail(header), wide)}

\* the sub-sequences of the required columns
SplitHeaders ==
    {SelectSeq(required_cols, LAMBDA n : n \in S) : S \in SUBSET Range(required_cols)}

\* the required columns followed by the first k extra ones
WideHeader(k) == required_cols \o SubSeq(ExtraNames, 1, k)

IsSplitTable(file) ==
    \E h \in SplitHeaders, n \in 0..MaxRows :
        \E rows \in [1..n -> RowChoices(h, FALSE)] :
            file = [header |-> h, rows |-> rows]

IsWideTable(file, extras) ==
    \E k \in extras, n \in 0..MaxWideRows :
        \E rows \in [1..n -> RowChoices(WideHeader(k), TRUE)] :
            file = [header |-> WideHeader(k), rows |-> rows]

(***************************************************************************)
(* The transforms applied to uploaded tables.                              *)
(***************************************************************************)
Upload(which) == IF which = "a" THEN upload_a ELSE upload_b

HandlerIdle ==
    /\ pc = "idle"
    /\ route = None
    /\ disk = [p \in Paths |-> Absent]
    /\ handles = {}
    /\ temp_input_path = None
    /\ temp_output_path = None
    /\ temp_files = <<>>
    /\ loop_i = 0
    /\ callee = NoCall
    /\ exc = None
    /\ file_data = Absent
    /\ archive = <<>>
    /\ unlink_failed = {}
    /\ response = NoResponse

TransformStart ==
    /\ op = [name |-> None, arg |-> None]
    /\ status = None
    /\ df_yes = <<>>
    /\ df_no = <<>>
    /\ book = <<>>

\* process_and_format(file_path, output_file) on one of the uploads
RunProcessAndFormat ==
    \E which \in {"a", "b"} :
        LET df == read_csv(Upload(which))
        IN  /\ op.name = None
            /\ op' = [name |-> "process_and_format", arg |-> which]
            /\ IF ~has_required_cols(df)
               THEN /\ status' = "ValueError"
                    /\ UNCHANGED <<df_yes, df_no, book>>
               ELSE IF ~can_split(df)
               THEN /\ status' = "KeyError"
                    /\ UNCHANGED <<df_yes, df_no, book>>
               ELSE \E yes \in sort_values(select_flag(df, Yes), ColumnOf(df, "LASTDEMAND")),
                       no \in sort_values(select_flag(df, No), ColumnOf(df, "LASTDEMAND")) :
                        /\ df_yes' = yes
                        /\ df_no' = no
                        /\ book' = split_book(df, yes, no)
                        /\ status' = "ok"
            /\ UNCHANGED <<upload_a, upload_b>>
            /\ UNCHANGED hvars

\* process_combined_files(file_a_path, file_b_path, output_file)
RunProcessCombinedFiles ==
    /\ op.name = None
    /\ op' = [name |-> "process_combined_files", arg |-> "ab"]
    /\ book' = combined_book(upload_a, upload_b)
    /\ status' = "ok"
    /\ UNCHANGED <<upload_a, upload_b, df_yes, df_no>>
    /\ UNCHANGED hvars

NextTransform == RunProcessAndFormat \/ RunProcessCombinedFiles

InitSplit ==
    /\ IsSplitTable(upload_a)
    /\ upload_b = [header |-> required_cols, rows |-> <<>>]
    /\ TransformStart
    /\ HandlerIdle

InitSheets ==
    /\ IsWideTable(upload_a, {0, 2, MaxExtra})
    /\ IsWideTable(upload_b, {0, 2})
    /\ TransformStart
    /\ HandlerIdle

SpecSplit == InitSplit /\ [][NextTransform]_vars
SpecSheets == InitSheets /\ [][NextTransform]_vars

(***************************************************************************)
(* Properties of the transforms.                                           *)
(***************************************************************************)
Count(seq, x) == Cardinality({i \in 1..Len(seq) : seq[i] = x})
SameBag(s, t) == \A x \in Range(s) \cup Range(t) : Count(s, x) = Count(t, x)

RanSplit == op.name = "process_and_format"
RanCombined == op.name = "process_combined_files"
Input == Upload(op.arg)

\* the rows of an uploaded table as worksheet cells
AsSheetRows(file) ==
    [i \in 1..Len(file.rows) |->
       [c \in 1..Len(file.header) |-> ExcelCell(read_csv(file).rows[i].cells[c])]]

FlagOf(file, i) == file.rows[i][IndexIn(file.header, "ISGOVTCAN")]

\* C1 as stated: the rows of GovtCAN_Yes and GovtCAN_No together are, as a
\* multiset, all the rows of the input table, whatever their ISGOVTCAN.
C1_AllRowsOnSheets ==
    (RanSplit /\ status = "ok") =>
        SameBag(book[1].rows \o book[2].rows, AsSheetRows(Input))

\* C1 amended: the rows of GovtCAN_Yes and GovtCAN_No together are, as a
\* multiset, the input rows whose ISGOVTCAN is exactly "Yes" or "No"; GovtCAN_Yes
\* holds those with "Yes" and GovtCAN_No those with "No".
C1_FlaggedRowsOnSheets ==
    (RanSplit /\ status = "ok") =>
        LET all == AsSheetRows(Input)
            flagged(v) == {i \in 1..Len(all) : FlagOf(Input, i) = v}
            bagOf(I, x) == Cardinality({i \in I : all[i] = x})
        IN  /\ \A x \in Range(all) \cup Range(book[1].rows) \cup Range(book[2].rows) :
                /\ Count(book[1].rows, x) = bagOf(flagged(Yes), x)
                /\ Count(book[2].rows, x) = bagOf(flagged(No), x)
            /\ Len(book[1].rows) + Len(book[2].rows)
                 = Cardinality(flagged(Yes) \cup flagged(No))

C1_Witness ==
    /\ RanSplit /\ status = "ok"
    /\ Len(Input.rows) = 3
    /\ Len(book[1].rows) = 2
    /\ book[1].rows[1] = book[1].rows[2]
    /\ Len(book[2].rows) = 0

\* C2: the column check raises iff one of ISGOVTCAN, DIVNCODE, LASTDEMAND is
\* not a column of the loaded table, whatever the number of rows, and when it
\* raises nothing has been filtered, sorted or written.
C2_ColumnCheck ==
    RanSplit =>
        /\ status = "ValueError" <=>
              \E n \in {"ISGOVTCAN", "DIVNCODE", "LASTDEMAND"} : n \notin Range(Input.header)
        /\ status # "ValueError" => status = "ok"
        /\ status = "ValueError" => df_yes = <<>> /\ df_no = <<>> /\ book = <<>>

C2_Witness ==
    /\ RanSplit
    /\ status = "ok"
    /\ Input.rows = <<>>
    /\ Len(book) = 2

C2_WitnessRaised ==
    /\ RanSplit
    /\ status = "ValueError"
    /\ Len(Input.rows) = 2
    /\ Range(Input.header) = {"ISGOVTCAN", "DIVNCODE"}

\* the number a LASTDEMAND cell stands for, when it stands for one
IsNumeric(v) == v.t = "num" \/ (v.t = "str" /\ IsIntLiteral(v.s))
NumericValue(v) == IF v.t = "num" THEN v.n ELSE IntValue(v.s)

DemandOf(rows, i) == rows[i].cells[IndexIn(Input.header, "LASTDEMAND")]

SortedStable(rows) ==
    \A i, j \in 1..Len(rows) :
        i < j =>
            LET a == DemandOf(rows, i)
                b == DemandOf(rows, j)
            IN  /\ IsNumeric(b) => IsNumeric(a)
                /\ IsNumeric(a) /\ IsNumeric(b) => NumericValue(a) >= NumericValue(b)
                /\ (IsNumeric(a) /\ IsNumeric(b) /\ NumericValue(a) = NumericValue(b))
                      => rows[i].index < rows[j].index
                /\ (~IsNumeric(a) /\ ~IsNumeric(b)) => rows[i].index < rows[j].index

\* C5: on each of the two sheets the rows are in descending numeric order of
\* LASTDEMAND, the non-numeric and missing ones after all numeric ones, and
\* rows with equal LASTDEMAND (and the non-numeric ones) in input order.
C5_SortedDescendingStable ==
    (RanSplit /\ status = "ok") => SortedStable(df_yes) /\ SortedStable(df_no)

\* the part of C5 that does not depend on the sort being stable
C5_NumericFirstDescending ==
    (RanSplit /\ status = "ok") =>
        \A rows \in {df_yes, df_no} :
            \A i, j \in 1..Len(rows) :
                i < j =>
                    /\ IsNumeric(DemandOf(rows, j)) => IsNumeric(DemandOf(rows, i))
                    /\ IsNumeric(DemandOf(rows, i)) /\ IsNumeric(DemandOf(rows, j))
                          => NumericValue(DemandOf(rows, i)) >= NumericValue(DemandOf(rows, j))

\* when every LASTDEMAND cell is a number or missing, the order is numeric
\* descending with the missing ones last
C5_AllNumericDescending ==
    (RanSplit /\ status = "ok"
       /\ \A i \in 1..Len(Input.rows) :
             Input.rows[i][IndexIn(Input.header, "LASTDEMAND")] \in {<<>>, <<"5">>, <<"1", "0">>})
    => \A rows \in {df_yes, df_no} :
         \A i, j \in 1..Len(rows) :
            i < j =>
                /\ IsNumeric(DemandOf(rows, j)) => IsNumeric(DemandOf(rows, i))
                /\ IsNumeric(DemandOf(rows, i)) /\ IsNumeric(DemandOf(rows, j))
                      => NumericValue(DemandOf(rows, i)) >= NumericValue(DemandOf(rows, j))

(***************************************************************************)
(* Properties of the sheets.                                               *)
(***************************************************************************)
Produced == status = "ok" /\ book # <<>>

HccColumn(ws) == IndexIn(ws.header, "HCC Type")

\* row i of the Combined sheet shows row k of the uploaded table in every
\* column of that table other than HCC Type
ShowsRow(ws, i, file, k) ==
    \A c \in 1..Len(file.header) :
        file.header[c] # "HCC Type" =>
            ws.rows[i][IndexIn(ws.header, file.header[c])] = AsSheetRows(file)[k][c]

\* C6: the Combined sheet has len(A)+len(B) data rows; the first len(A) are
\* A's rows in A's order with HCC Type "A", the rest B's rows in B's order with
\* HCC Type "B".
C6_CombinedRows ==
    RanCombined =>
        LET ws == book[1]
            na == Len(upload_a.rows)
            nb == Len(upload_b.rows)
        IN  /\ Len(book) = 1
            /\ ws.name = "Combined"
            /\ Len(ws.rows) = na + nb
            /\ \A i \in 1..na :
                  ws.rows[i][HccColumn(ws)] = Str(<<"A">>) /\ ShowsRow(ws, i, upload_a, i)
            /\ \A i \in 1..nb :
                  /\ ws.rows[na + i][HccColumn(ws)] = Str(<<"B">>)
                  /\ ShowsRow(ws, na + i, upload_b, i)

C6_Witness ==
    /\ RanCombined
    /\ Len(upload_a.rows) = 2
    /\ Len(upload_b.rows) = 2
    /\ upload_a.rows[1] # upload_a.rows[2]
    /\ upload_b.rows[1] # upload_b.rows[2]
    /\ upload_a.rows[1][1] # upload_b.rows[1][1]
    /\ Len(upload_a.header) > Len(upload_b.header)

HasHccColumn(file) == "HCC Type" \in Range(file.header)

RenderedLength(v) == IF v = Empty THEN 0 ELSE StrLen(v)

\* C9: every column's width is 2 plus the longest rendering among its header
\* and data cells, where only empty cells count as "" (0 and False count with
\* their full length).
C9_WidthIsLongestPlusTwo ==
    Produced =>
        \A s \in 1..Len(book) :
            \A c \in 1..Len(book[s].header) :
                book[s].width[c]
                   = 2 + SetMax({Len(book[s].header[c])}
                                \cup {RenderedLength(book[s].rows[r][c]) :
                                        r \in 1..Len(book[s].rows)})

\* the widths agree with C9 on every column that holds no 0 and no False
C9_WidthWithoutFalsyCells ==
    Produced =>
        \A s \in 1..Len(book) :
            \A c \in 1..Len(book[s].header) :
                (\A r \in 1..Len(book[s].rows) :
                    book[s].rows[r][c] \notin {Num(0), Bool(FALSE)})
                => book[s].width[c]
                     = 2 + SetMax({Len(book[s].header[c])}
                                  \cup {RenderedLength(book[s].rows[r][c]) :
                                          r \in 1..Len(book[s].rows)})

\* C10: in every sheet every cell of row 1 is bold and centered, the fill is on
\* a header cell iff its column position is 1 or 16, and no data cell is styled.
C10_HeaderStyle ==
    Produced =>
        \A s \in 1..Len(book) :
            LET ws == book[s]
            IN  /\ DOMAIN ws.style = 1..(Len(ws.rows) + 1)
                /\ \A c \in 1..Len(ws.header) :
                      /\ ws.style[1][c].bold
                      /\ ws.style[1][c].horizontal = "center"
                      /\ ws.style[1][c].vertical = "center"
                      /\ ws.style[1][c].fill # None <=> c \in {1, 16}
                      /\ \A r \in 2..(Len(ws.rows) + 1) : ws.style[r][c] = NoStyle

C10_Witness ==
    /\ Produced
    /\ \E s \in 1..Len(book) :
          /\ Len(book[s].header) >= 17
          /\ Len(book[s].rows) >= 1
          /\ book[s].style[1][16].fill = "FFC000"
          /\ book[s].style[1][17].fill = None

C10_WitnessNarrow ==
    /\ Produced
    /\ RanCombined
    /\ Len(book[1].header) = 4
    /\ book[1].style[1][1].fill = "FFC000"

(***************************************************************************)
(* The request handlers.  A label Lnnn is the line of app1.py the handler   *)
(* is about to execute.                                                    *)
(***************************************************************************)
Uploads == <<upload_a, upload_b, op, status>>
Data == <<upload_a, upload_b, op, status, route>>
Frames == <<df_yes, df_no, book>>
Locals == <<temp_input_path, temp_output_path, temp_files>>
Results == <<file_data, archive, response>>

ALLOWED_EXTENSIONS == {<<"c", "s", "v">>}

\* str.lower() on letters and digits
LowerText(t) ==
    [i \in 1..Len(t) |-> IF t[i] \in Range(Upper) THEN Lower[IndexIn(Upper, t[i])] ELSE t[i]]

\* '.' in filename and filename.rsplit('.', 1)[1].lower() in ALLOWED_EXTENSIONS
allowed_file(filename) ==
    /\ "." \in Range(filename)
    /\ LowerText(SubSeq(filename,
                        SetMax({i \in 1..Len(filename) : filename[i] = "."}) + 1,
                        Len(filename))) \in ALLOWED_EXTENSIONS

Filenames ==
    {<<>>, <<"d", ".", "c", "s", "v">>, <<"d", ".", "C", "S", "V">>,
     <<"d", ".", "t", "x", "t">>, <<"c", "s", "v">>}

\* the tables a request may upload
HandlerTables ==
    {[header |-> <<>>, rows |-> <<>>],
     [header |-> required_cols, rows |-> <<>>],
     [header |-> required_cols, rows |-> <<(<<Yes, <<"7">>, <<"5">>>>)>>],
     [header |-> <<"ISGOVTCAN", "DIVNCODE">>, rows |-> <<(<<No, <<"7">>>>)>>]}

Redirect(message) ==
    [kind |-> "redirect", flash |-> message, name |-> None, data |-> Absent]
SendFile(data, name) ==
    [kind |-> "file", flash |-> None, name |-> name, data |-> data]

\* the except clause of the running handler
ExceptLabel == IF route = "single" THEN "L177" ELSE "L271"

\* an exception raised by a statement of the handler's try block
HandlerRaise(e) ==
    /\ pc' = ExceptLabel
    /\ exc' = e
    /\ loop_i' = 1

\* mutant of CalleeRaise: the handler carries on after a failed transform
CalleeRaiseSwallowed(e) ==
    /\ pc' = callee.ret
    /\ exc' = exc
    /\ loop_i' = loop_i
    /\ callee' = NoCall

\* an exception raised inside a transform: it unwinds to the handler's except
CalleeRaise(e) ==
    /\ pc' = ExceptLabel
    /\ exc' = e
    /\ loop_i' = 1
    /\ callee' = NoCall

\* tempfile.NamedTemporaryFile(mode='wb', delete=False, ...): the file exists
\* and its handle is open
CreateTemp(path, handle) ==
    /\ disk' = [disk EXCEPT ![path] = EmptyFile]
    /\ handles' = handles \cup {handle}

\* if path and os.path.exists(path): os.unlink(path), which succeeds or raises
Exists(path) == path # None /\ disk[path] # Absent

Unlinked(path) ==
    /\ disk' = [disk EXCEPT ![path] = Absent]
    /\ UNCHANGED unlink_failed

UnlinkRaised(path) ==
    /\ unlink_failed' = unlink_failed \cup {path}
    /\ UNCHANGED disk

Call(fn, in1, in2, out, ret) ==
    /\ callee' = [fn |-> fn, at |-> IF fn = "process_and_format" THEN "P29" ELSE "Q78",
                  in1 |-> in1, in2 |-> in2, out |-> out, ret |-> ret]
    /\ pc' = "call"

(***************************************************************************)
(* process_single, lines 122-190.                                          *)
(***************************************************************************)
\* lines 124-135 and 188-190: the checks before the try block
ReceiveSingle ==
    /\ pc = "idle"
    /\ \E has_file \in BOOLEAN, filename \in Filenames :
          /\ route' = "single"
          /\ IF ~has_file \/ filename = <<>>
             THEN /\ response' = Redirect("No file selected")
                  /\ pc' = "done"
             ELSE IF allowed_file(filename)
             THEN /\ pc' = "L141"
                  /\ UNCHANGED response
             ELSE /\ response' = Redirect("Invalid file type. Please upload a CSV file.")
                  /\ pc' = "done"
    /\ UNCHANGED <<Uploads, Frames, Locals, disk, handles, loop_i, callee, exc,
                   file_data, archive, unlink_failed>>

\* lines 141-142
SingleCreateInput ==
    /\ pc = "L141"
    /\ \/ /\ CreateTemp("input", "temp_input")
          /\ temp_input_path' = "input"
          /\ pc' = "L143"
          /\ UNCHANGED <<exc, loop_i>>
       \/ /\ HandlerRaise("OSError")
          /\ UNCHANGED <<disk, handles, temp_input_path>>
    /\ UNCHANGED <<Data, Frames, temp_output_path, temp_files, callee, Results,
                   unlink_failed>>

\* line 143: file.save(temp_input_path)
SingleSave ==
    /\ pc = "L143"
    /\ \/ /\ disk' = [disk EXCEPT ![temp_input_path] = CsvFile(upload_a)]
          /\ pc' = "L144"
          /\ UNCHANGED <<exc, loop_i>>
       \/ /\ HandlerRaise("OSError")
          /\ UNCHANGED disk
    /\ UNCHANGED <<Data, Frames, Locals, handles, callee, Results, unlink_failed>>

\* line 144: temp_input.close()
SingleCloseInput ==
    /\ pc = "L144"
    /\ handles' = handles \ {"temp_input"}
    /\ pc' = "L147"
    /\ UNCHANGED <<Data, Frames, Locals, disk, loop_i, callee, exc, Results,
                   unlink_failed>>

\* lines 147-148
SingleCreateOutput ==
    /\ pc = "L147"
    /\ \/ /\ CreateTemp("output", "temp_output")
          /\ temp_output_path' = "output"
          /\ pc' = "L149"
          /\ UNCHANGED <<exc, loop_i>>
       \/ /\ HandlerRaise("OSError")
          /\ UNCHANGED <<disk, handles, temp_output_path>>
    /\ UNCHANGED <<Data, Frames, temp_input_path, temp_files, callee, Results,
                   unlink_failed>>

\* line 149: temp_output.close()
SingleCloseOutput ==
    /\ pc = "L149"
    /\ handles' = handles \ {"temp_output"}
    /\ pc' = "L152"
    /\ UNCHANGED <<Data, Frames, Locals, disk, loop_i, callee, exc, Results,
                   unlink_failed>>

\* line 152: process_and_format(temp_input_path, temp_output_path)
SingleCall ==
    /\ pc = "L152"
    /\ Call("process_and_format", temp_input_path, None, temp_output_path, "L155")
    /\ UNCHANGED <<Data, Frames, Locals, disk, handles, loop_i, exc, Results,
                   unlink_failed>>

\* lines 155-156: with open(temp_output_path, 'rb') as f: file_data = f.read()
SingleReadBack ==
    /\ pc = "L155"
    /\ file_data' = disk[temp_output_path]
    /\ pc' = "L160"
    /\ UNCHANGED <<Data, Frames, Locals, disk, handles, loop_i, callee, exc,
                   archive, response, unlink_failed>>

\* lines 159-161 and 164-165: the first unlink of the clean-up; when it raises
\* the bare except ends the clean-up
SingleUnlinkInput ==
    /\ pc = "L160"
    /\ IF Exists(temp_input_path)
       THEN \/ Unlinked(temp_input_path) /\ pc' = "L162"
            \/ UnlinkRaised(temp_input_path) /\ pc' = "L168"
       ELSE pc' = "L162" /\ UNCHANGED <<disk, unlink_failed>>
    /\ UNCHANGED <<Data, Frames, Locals, handles, loop_i, callee, exc, Results>>

\* lines 162-165
SingleUnlinkOutput ==
    /\ pc = "L162"
    /\ IF Exists(temp_output_path)
       THEN \/ Unlinked(temp_output_path)
            \/ UnlinkRaised(temp_output_path)
       ELSE UNCHANGED <<disk, unlink_failed>>
    /\ pc' = "L168"
    /\ UNCHANGED <<Data, Frames, Locals, handles, loop_i, callee, exc, Results>>

\* lines 168-173: send_file(BytesIO(file_data), ...)
SingleSend ==
    /\ pc = "L168"
    /\ \E category \in {"A", "B"} :
          response' = SendFile(file_data, IF category = "A" THEN "Unbilled_CAT_A.xlsx"
                                          ELSE "Unbilled_CAT_B.xlsx")
    /\ pc' = "done"
    /\ UNCHANGED <<Data, Frames, Locals, disk, handles, loop_i, callee, exc,
                   file_data, archive, unlink_failed>>

\* lines 177-179 and 182-183: the except clause's first unlink
SingleExceptUnlinkInput ==
    /\ pc = "L177"
    /\ route = "single"
    /\ IF Exists(temp_input_path)
       THEN \/ Unlinked(temp_input_path) /\ pc' = "L180"
            \/ UnlinkRaised(temp_input_path) /\ pc' = "L185"
       ELSE pc' = "L180" /\ UNCHANGED <<disk, unlink_failed>>
    /\ UNCHANGED <<Data, Frames, Locals, handles, loop_i, callee, exc, Results>>

\* lines 180-183
SingleExceptUnlinkOutput ==
    /\ pc = "L180"
    /\ IF Exists(temp_output_path)
       THEN \/ Unlinked(temp_output_path)
            \/ UnlinkRaised(temp_output_path)
       ELSE UNCHANGED <<disk, unlink_failed>>
    /\ pc' = "L185"
    /\ UNCHANGED <<Data, Frames, Locals, handles, loop_i, callee, exc, Results>>

\* lines 185-186
SingleExceptReturn ==
    /\ pc = "L185"
    /\ response' = Redirect("Error processing file")
    /\ pc' = "done"
    /\ UNCHANGED <<Data, Frames, Locals, disk, handles, loop_i, callee, exc,
                   file_data, archive, unlink_failed>>

(***************************************************************************)
(* process_and_format, lines 22-71, statement by statement.                *)
(***************************************************************************)
InCall(fn, at) == pc = "call" /\ callee.fn = fn /\ callee.at = at
Goto(at) == callee' = [callee EXCEPT !.at = at]

\* the table pd.read_csv finds in a staged upload
Staged(path) == disk[path].table

\* line 29: pd.read_csv raises EmptyDataError on a file without a header row
PfRead ==
    /\ InCall("process_and_format", "P29")
    /\ IF Staged(callee.in1).header = <<>>
       THEN CalleeRaise("EmptyDataError")
       ELSE Goto("P33") /\ UNCHANGED <<pc, exc, loop_i>>
    /\ UNCHANGED <<Data, Frames, Locals, disk, handles, Results, unlink_failed>>

\* lines 32-34
PfCheckColumns ==
    /\ InCall("process_and_format", "P33")
    /\ IF has_required_cols(read_csv(Staged(callee.in1)))
       THEN Goto("P37") /\ UNCHANGED <<pc, exc, loop_i>>
       ELSE CalleeRaise("ValueError")
    /\ UNCHANGED <<Data, Frames, Locals, disk, handles, Results, unlink_failed>>

\* lines 37-38
PfSplit ==
    /\ InCall("process_and_format", "P37")
    /\ LET df == read_csv(Staged(callee.in1))
       IN  IF ~can_split(df)
           THEN CalleeRaise("KeyError") /\ UNCHANGED <<df_yes, df_no>>
           ELSE /\ \E yes \in sort_values(select_flag(df, Yes), ColumnOf(df, "LASTDEMAND")),
                      no \in sort_values(select_flag(df, No), ColumnOf(df, "LASTDEMAND")) :
                       df_yes' = yes /\ df_no' = no
                /\ Goto("P41")
                /\ UNCHANGED <<pc, exc, loop_i>>
    /\ UNCHANGED <<Data, book, Locals, disk, handles, Results, unlink_failed>>

\* line 41: entering the with block opens the writer
PfOpenWriter ==
    /\ InCall("process_and_format", "P41")
    /\ handles' = handles \cup {"writer"}
    /\ Goto("P42")
    /\ UNCHANGED <<Data, Frames, Locals, pc, disk, loop_i, exc, Results, unlink_failed>>

\* lines 42-44: the two sheets are written and the with block closes the
\* writer, whether the write succeeded or raised
PfWrite ==
    /\ InCall("process_and_format", "P42")
    /\ handles' = handles \ {"writer"}
    /\ \/ /\ LET columns == read_csv(Staged(callee.in1)).columns
             IN  disk' = [disk EXCEPT ![callee.out] =
                            XlsxFile(<<to_excel(columns, df_yes, "GovtCAN_Yes"),
                                       to_excel(columns, df_no, "GovtCAN_No")>>)]
          /\ Goto("P47")
          /\ UNCHANGED <<pc, exc, loop_i>>
       \/ /\ CalleeRaise("OSError")
          /\ UNCHANGED disk
    /\ UNCHANGED <<Data, Frames, Locals, Results, unlink_failed>>

\* line 47: wb = load_workbook(output_file)
PfLoad ==
    /\ InCall("process_and_format", "P47")
    /\ book' = disk[callee.out].book
    /\ handles' = handles \cup {"wb"}
    /\ Goto("P55")
    /\ UNCHANGED <<Data, df_yes, df_no, Locals, pc, disk, loop_i, exc, Results,
                   unlink_failed>>

\* lines 55-68: the loop over the two sheets
PfStyle ==
    /\ InCall("process_and_format", "P55")
    /\ book' = [s \in 1..Len(book) |-> style_sheet(book[s])]
    /\ Goto("P70")
    /\ UNCHANGED <<Data, df_yes, df_no, Locals, pc, disk, handles, loop_i, exc,
                   Results, unlink_failed>>

\* line 70: wb.save(output_file)
PfSave ==
    /\ InCall("process_and_format", "P70")
    /\ \/ /\ disk' = [disk EXCEPT ![callee.out] = XlsxFile(book)]
          /\ Goto("P71")
          /\ UNCHANGED <<pc, exc, loop_i>>
       \/ /\ CalleeRaise("OSError")
          /\ UNCHANGED disk
    /\ UNCHANGED <<Data, Frames, Locals, handles, Results, unlink_failed>>

\* line 71: wb.close(), and the return to the handler
PfClose ==
    /\ InCall("process_and_format", "P71")
    /\ handles' = handles \ {"wb"}
    /\ pc' = callee.ret
    /\ callee' = NoCall
    /\ UNCHANGED <<Data, Frames, Locals, disk, loop_i, exc, Results, unlink_failed>>

(***************************************************************************)
(* process_combined_files, lines 73-116.                                   *)
(***************************************************************************)
\* lines 78-79
PcfRead ==
    /\ InCall("process_combined_files", "Q78")
    /\ IF Staged(callee.in1).header = <<>> \/ Staged(callee.in2).header = <<>>
       THEN CalleeRaise("EmptyDataError")
       ELSE Goto("Q89") /\ UNCHANGED <<pc, exc, loop_i>>
    /\ UNCHANGED <<Data, Frames, Locals, disk, handles, Results, unlink_failed>>

\* line 89: entering the with block opens the writer
PcfOpenWriter ==
    /\ InCall("process_combined_files", "Q89")
    /\ handles' = handles \cup {"writer"}
    /\ Goto("Q90")
    /\ UNCHANGED <<Data, Frames, Locals, pc, disk, loop_i, exc, Results, unlink_failed>>

\* lines 82-86 and 90-91: the labelled, concatenated frame is written
PcfWrite ==
    /\ InCall("process_combined_files", "Q90")
    /\ handles' = handles \ {"writer"}
    /\ \/ /\ LET df == combined_df(Staged(callee.in1), Staged(callee.in2))
             IN  disk' = [disk EXCEPT ![callee.out] =
                            XlsxFile(<<to_excel(df.columns, df.rows, "Combined")>>)]
          /\ Goto("Q94")
          /\ UNCHANGED <<pc, exc, loop_i>>
       \/ /\ CalleeRaise("OSError")
          /\ UNCHANGED disk
    /\ UNCHANGED <<Data, Frames, Locals, Results, unlink_failed>>

\* lines 94-95
PcfLoad ==
    /\ InCall("process_combined_files", "Q94")
    /\ book' = disk[callee.out].book
    /\ handles' = handles \cup {"wb"}
    /\ Goto("Q102")
    /\ UNCHANGED <<Data, df_yes, df_no, Locals, pc, disk, loop_i, exc, Results,
                   unlink_failed>>

\* lines 102-113
PcfStyle ==
    /\ InCall("process_combined_files", "Q102")
    /\ book' = <<style_sheet(book[1])>>
    /\ Goto("Q115")
    /\ UNCHANGED <<Data, df_yes, df_no, Locals, pc, disk, handles, loop_i, exc,
                   Results, unlink_failed>>

\* line 115
PcfSave ==
    /\ InCall("process_combined_files", "Q115")
    /\ \/ /\ disk' = [disk EXCEPT ![callee.out] = XlsxFile(book)]
          /\ Goto("Q116")
          /\ UNCHANGED <<pc, exc, loop_i>>
       \/ /\ CalleeRaise("OSError")
          /\ UNCHANGED disk
    /\ UNCHANGED <<Data, Frames, Locals, handles, Results, unlink_failed>>

\* line 116
PcfClose ==
    /\ InCall("process_combined_files", "Q116")
    /\ handles' = handles \ {"wb"}
    /\ pc' = callee.ret
    /\ callee' = NoCall
    /\ UNCHANGED <<Data, Frames, Locals, disk, loop_i, exc, Results, unlink_failed>>

(***************************************************************************)
(* process_combined, lines 192-283.                                        *)
(***************************************************************************)
\* lines 194-206 and 281-283: the checks before the try block
ReceiveCombined ==
    /\ pc = "idle"
    /\ \E has_a \in BOOLEAN, has_b \in BOOLEAN,
          name_a \in Filenames, name_b \in Filenames :
          /\ route' = "combined"
          /\ IF ~has_a \/ ~has_b
             THEN /\ response' = Redirect("Both Category A and B files are required")
                  /\ pc' = "done"
             ELSE IF name_a = <<>> \/ name_b = <<>>
             THEN /\ response' = Redirect("Both files must be selected")
                  /\ pc' = "done"
             ELSE IF allowed_file(name_a) /\ allowed_file(name_b)
             THEN /\ pc' = "L212"
                  /\ UNCHANGED response
             ELSE /\ response' = Redirect("Invalid file type. Please upload CSV files only.")
                  /\ pc' = "done"
    /\ UNCHANGED <<Uploads, Frames, Locals, disk, handles, loop_i, callee, exc,
                   file_data, archive, unlink_failed>>

\* a NamedTemporaryFile whose name is appended to temp_files
CombinedCreate(here, path, handle, next) ==
    /\ pc = here
    /\ \/ /\ CreateTemp(path, handle)
          /\ temp_files' = Append(temp_files, path)
          /\ pc' = next
          /\ UNCHANGED <<exc, loop_i>>
       \/ /\ HandlerRaise("OSError")
          /\ UNCHANGED <<disk, handles, temp_files>>
    /\ UNCHANGED <<Data, Frames, temp_input_path, temp_output_path, callee,
                   Results, unlink_failed>>

\* upload.save(path)
CombinedSave(here, path, upload, next) ==
    /\ pc = here
    /\ \/ /\ disk' = [disk EXCEPT ![path] = CsvFile(upload)]
          /\ pc' = next
          /\ UNCHANGED <<exc, loop_i>>
       \/ /\ HandlerRaise("OSError")
          /\ UNCHANGED disk
    /\ UNCHANGED <<Data, Frames, Locals, handles, callee, Results, unlink_failed>>

\* handle.close()
CombinedClose(here, handle, next) ==
    /\ pc = here
    /\ handles' = handles \ {handle}
    /\ pc' = next
    /\ UNCHANGED <<Data, Frames, Locals, disk, loop_i, callee, exc, Results,
                   unlink_failed>>

CombinedCall(here, fn, in1, in2, out, next) ==
    /\ pc = here
    /\ Call(fn, in1, in2, out, next)
    /\ UNCHANGED <<Data, Frames, Locals, disk, handles, loop_i, exc, Results,
                   unlink_failed>>

CombinedCreateA == CombinedCreate("L212", "a", "temp_a", "L215")             \* 212-214
CombinedSaveA == CombinedSave("L215", "a", upload_a, "L216")                 \* 215
CombinedCloseA == CombinedClose("L216", "temp_a", "L218")                    \* 216
CombinedCreateB == CombinedCreate("L218", "b", "temp_b", "L221")             \* 218-220
CombinedSaveB == CombinedSave("L221", "b", upload_b, "L222")                 \* 221
CombinedCloseB == CombinedClose("L222", "temp_b", "L225")                    \* 222
CombinedCreateOutA == CombinedCreate("L225", "out_a", "temp_out_a", "L228")  \* 225-227
CombinedCloseOutA == CombinedClose("L228", "temp_out_a", "L230")             \* 228
CombinedCreateOutB == CombinedCreate("L230", "out_b", "temp_out_b", "L233")  \* 230-232
CombinedCloseOutB == CombinedClose("L233", "temp_out_b", "L235")             \* 233
CombinedCreateOut == CombinedCreate("L235", "combined", "temp_combined", "L238") \* 235-237
CombinedCloseOut == CombinedClose("L238", "temp_combined", "L241")           \* 238
CombinedCallA == CombinedCall("L241", "process_and_format", "a", None, "out_a", "L242")
CombinedCallB == CombinedCall("L242", "process_and_format", "b", None, "out_b", "L243")
CombinedCallBoth ==
    CombinedCall("L243", "process_combined_files", "a", "b", "combined", "L246")

\* the entries of the archive, in the order of lines 248-250
ZipEntries ==
    <<[path |-> "out_a", name |-> "Unbilled_CAT_A.xlsx"],
      [path |-> "out_b", name |-> "Unbilled_CAT_B.xlsx"],
      [path |-> "combined", name |-> "Unbilled_CAT_A_and_B_Combined.xlsx"]>>

\* lines 246-247: the buffer is created and the with block opens the archive
CombinedOpenZip ==
    /\ pc = "L246"
    /\ archive' = <<>>
    /\ handles' = handles \cup {"zip_file"}
    /\ loop_i' = 1
    /\ pc' = "L248"
    /\ UNCHANGED <<Data, Frames, Locals, disk, callee, exc, file_data, response,
                   unlink_failed>>

\* lines 248-250: one zip_file.write; after the third the with block closes
\* the archive, as it does when a write raises
CombinedZipWrite ==
    /\ pc = "L248"
    /\ \/ /\ archive' = Append(archive, [name |-> ZipEntries[loop_i].name,
                                         data |-> disk[ZipEntries[loop_i].path]])
          /\ IF loop_i = Len(ZipEntries)
             THEN /\ handles' = handles \ {"zip_file"}
                  /\ loop_i' = 1
                  /\ pc' = "L255"
             ELSE /\ loop_i' = loop_i + 1
                  /\ UNCHANGED <<handles, pc>>
          /\ UNCHANGED exc
       \/ /\ handles' = handles \ {"zip_file"}
          /\ HandlerRaise("OSError")
          /\ UNCHANGED archive
    /\ UNCHANGED <<Data, Frames, Locals, disk, callee, file_data, response,
                   unlink_failed>>

\* one turn of a clean-up loop: each unlink has its own try/except
CleanupTurn(here, next) ==
    /\ pc = here
    /\ route = "combined"
    /\ IF loop_i > Len(temp_files)
       THEN pc' = next /\ UNCHANGED <<disk, unlink_failed, loop_i>>
       ELSE /\ IF Exists(temp_files[loop_i])
               THEN \/ Unlinked(temp_files[loop_i])
                    \/ UnlinkRaised(temp_files[loop_i])
               ELSE UNCHANGED <<disk, unlink_failed>>
            /\ loop_i' = loop_i + 1
            /\ UNCHANGED pc
    /\ UNCHANGED <<Data, Frames, Locals, handles, callee, exc, Results>>

CombinedCleanup == CleanupTurn("L255", "L262")              \* lines 255-260
CombinedExceptCleanup == CleanupTurn("L271", "L278")        \* lines 271-276

\* lines 262-267
CombinedSend ==
    /\ pc = "L262"
    /\ response' = SendFile(archive, "processed_files.zip")
    /\ pc' = "done"
    /\ UNCHANGED <<Data, Frames, Locals, disk, handles, loop_i, callee, exc,
                   file_data, archive, unlink_failed>>

\* lines 278-279
CombinedExceptReturn ==
    /\ pc = "L278"
    /\ response' = Redirect("Error processing files")
    /\ pc' = "done"
    /\ UNCHANGED <<Data, Frames, Locals, disk, handles, loop_i, callee, exc,
                   file_data, archive, unlink_failed>>

Init ==
    /\ upload_a \in HandlerTables
    /\ upload_b \in HandlerTables
    /\ TransformStart
    /\ HandlerIdle

Next ==
    \/ ReceiveSingle \/ SingleCreateInput \/ SingleSave \/ SingleCloseInput
    \/ SingleCreateOutput \/ SingleCloseOutput \/ SingleCall \/ SingleReadBack
    \/ SingleUnlinkInput \/ SingleUnlinkOutput \/ SingleSend
    \/ SingleExceptUnlinkInput \/ SingleExceptUnlinkOutput \/ SingleExceptReturn
    \/ PfRead \/ PfCheckColumns \/ PfSplit \/ PfOpenWriter \/ PfWrite \/ PfLoad
    \/ PfStyle \/ PfSave \/ PfClose
    \/ PcfRead \/ PcfOpenWriter \/ PcfWrite \/ PcfLoad \/ PcfStyle \/ PcfSave
    \/ PcfClose
    \/ ReceiveCombined
    \/ CombinedCreateA \/ CombinedSaveA \/ CombinedCloseA
    \/ CombinedCreateB \/ CombinedSaveB \/ CombinedCloseB
    \/ CombinedCreateOutA \/ CombinedCloseOutA
    \/ CombinedCreateOutB \/ CombinedCloseOutB
    \/ CombinedCreateOut \/ CombinedCloseOut
    \/ CombinedCallA \/ CombinedCallB \/ CombinedCallBoth
    \/ CombinedOpenZip \/ CombinedZipWrite \/ CombinedCleanup \/ CombinedSend
    \/ CombinedExceptCleanup \/ CombinedExceptReturn

Spec == Init /\ [][Next]_vars

(***************************************************************************)
(* Properties of the request handlers.                                     *)
(***************************************************************************)
Returned == pc = "done"

\* C3: when a handler returns, every temp file the request created has been
\* deleted, on every exit path, also when the clean-up of an earlier temp
\* file failed.  (A file whose own os.unlink raised is not held against the
\* handler here.)
C3_TempFilesDeleted ==
    Returned => \A p \in Paths : disk[p] # Absent => p \in unlink_failed

\* process_combined, whose unlinks each have their own try, leaves only files
\* whose own unlink raised
C3_CombinedTempFilesDeleted ==
    (Returned /\ route = "combined") =>
        \A p \in Paths : disk[p] # Absent => p \in unlink_failed

\* a complete workbook of process_and_format for the uploaded table
CompleteSplitBook(data, file) ==
    LET df == read_csv(file)
    IN  /\ file.header # <<>>
        /\ has_required_cols(df)
        /\ \E yes \in sort_values(select_flag(df, Yes), ColumnOf(df, "LASTDEMAND")),
              no \in sort_values(select_flag(df, No), ColumnOf(df, "LASTDEMAND")) :
               data = XlsxFile(split_book(df, yes, no))

\* C4: a handler returns workbook bytes only when every step of the transform
\* completed, and an archive only when all three workbooks were produced, the
\* archive then holding exactly the three entries in order; when a step failed
\* for either input the caller gets an error message and no bytes.
C4_CompleteOrNothing ==
    Returned =>
        /\ response.kind \in {"file", "redirect"}
        /\ response.kind = "redirect" => response.data = Absent
        /\ exc # None => response.kind = "redirect"
        /\ (response.kind = "file" /\ route = "single") =>
              /\ exc = None
              /\ CompleteSplitBook(response.data, upload_a)
        /\ (response.kind = "file" /\ route = "combined") =>
              /\ exc = None
              /\ Len(response.data) = 3
              /\ response.data[1].name = "Unbilled_CAT_A.xlsx"
              /\ response.data[2].name = "Unbilled_CAT_B.xlsx"
              /\ response.data[3].name = "Unbilled_CAT_A_and_B_Combined.xlsx"
              /\ CompleteSplitBook(response.data[1].data, upload_a)
              /\ CompleteSplitBook(response.data[2].data, upload_b)
              /\ response.data[3].data = XlsxFile(combined_book(upload_a, upload_b))
        /\ (route = "combined" /\ response.flash = None) =>
              has_required_cols(read_csv(upload_a)) /\ has_required_cols(read_csv(upload_b))

\* file B lacks LASTDEMAND after file A was processed: an error, no archive
C4_Witness ==
    /\ Returned
    /\ route = "combined"
    /\ has_required_cols(read_csv(upload_a))
    /\ upload_a.header # <<>>
    /\ "LASTDEMAND" \notin Range(upload_b.header)
    /\ upload_b.header # <<>>
    /\ exc = "ValueError"
    /\ response.kind = "redirect"
    /\ response.data = Absent

C4_WitnessArchive ==
    /\ Returned
    /\ route = "combined"
    /\ response.kind = "file"
    /\ Len(response.data) = 3

\* C8: every resource the transforms and the handlers open (the writer, the
\* loaded workbook, the temp-file handles) is closed when the operation exits,
\* on every exit path.
C8_AllHandlesClosed ==
    Returned => handles = {}

\* the resources scoped by a with block are closed on every exit path
C8_ScopedHandlesClosed ==
    Returned => handles \cap {"writer", "zip_file"} = {}

====
